---- MODULE Spec2Model ----
(***************************************************************************)
(* Model of speech/grpc/transcribe_async.py: the command line is parsed,   *)
(* one AsyncRecognize request is submitted, the long-running operation is  *)
(* polled with GetOperation until it reports done, and the recognition     *)
(* result alternatives are printed.                                        *)
(*                                                                         *)
(* Texts whose characters matter (the uri, the --sample_rate value) are    *)
(* sequences of one-character strings.  The remote service and the         *)
(* credential provider are the environment: every reply they can give is   *)
(* a nondeterministic choice.                                              *)
(***************************************************************************)
EXTENDS Integers, Sequences, FiniteSets, TLC

VARIABLES pc, argv, args, requests, operation, name, response,
          queried, inflight, trace, stdout

vars == <<pc, argv, args, requests, operation, name, response,
          queried, inflight, trace, stdout>>

\* Largest number of poll iterations explored.
MaxPolls == 2

\* ------------------------------------------------------------------------
\* Program constants
\* ------------------------------------------------------------------------
DEADLINE_SECS == 10

DefaultSampleRate == 16000

DefaultEncoding == "LINEAR16"

DefaultLanguageCode == "en-US"

EncodingChoices == {"LINEAR16", "FLAC", "MULAW", "AMR", "AMR_WB"}

GcsPrefix == <<"g", "s", ":", "/", "/">>

\* ------------------------------------------------------------------------
\* Command lines explored
\* ------------------------------------------------------------------------
UriTexts ==
    { <<"g", "s", ":", "/", "/", "b", "/", "f">>,
      <<"g", "s", ":", "/", "/">>,
      <<"g", "s", ":", "/", "b">>,
      <<"n", "o", "t", "-", "a", "-", "g", "c", "s", "-", "p", "a", "t", "h">>,
      <<>> }

EncodingArgs == EncodingChoices \cup {"MP3"}

SampleRateTexts ==
    { <<"1", "6", "0", "0", "0">>,
      <<"4", "4", "1", "0", "0">>,
      <<"0">>,
      <<"-", "5">>,
      <<"8", "k">> }

\* An option is <<>> when it is left off the command line, <<v>> when given.
Optional(S) == {<<>>} \cup { <<v>> : v \in S }

ArgvSet == [input_uri : UriTexts,
            encoding : Optional(EncodingArgs),
            sample_rate : Optional(SampleRateTexts)]

\* ------------------------------------------------------------------------
\* Replies of the remote service explored
\* ------------------------------------------------------------------------
AbsentPayload == [kind |-> "absent", results |-> <<>>]

MalformedPayload == [kind |-> "malformed", results |-> <<>>]

\* Confidence is written in hundredths (98 stands for 0.98).
Payload1 ==
    [kind |-> "ok",
     results |-> << << [confidence |-> 98, transcript |-> "hello world"] >> >>]

Payload2 ==
    [kind |-> "ok",
     results |-> << << [confidence |-> 50, transcript |-> "a"],
                       [confidence |-> 90, transcript |-> "b"] >>,
                    << [confidence |-> 70, transcript |-> "c"] >> >>]

Payloads == {AbsentPayload, MalformedPayload, Payload1, Payload2}

Names == {"op1", "op2"}

ErrorMessages == {"", "internal failure"}

Handles == [name : Names, done : BOOLEAN, error : ErrorMessages,
            response : Payloads]

\* Value of the local `operation` before line 60 binds it.
NoHandle == [name |-> "", done |-> FALSE, error |-> "",
             response |-> AbsentPayload]

\* ------------------------------------------------------------------------
\* Pure functions
\* ------------------------------------------------------------------------
startswith(text, prefix) ==
    /\ Len(text) >= Len(prefix)
    /\ SubSeq(text, 1, Len(prefix)) = prefix

gcs_uri_ok_always(text) == TRUE

\* _gcs_uri returns its argument unless it raises ArgumentTypeError.
gcs_uri_ok(text) == startswith(text, GcsPrefix)

DigitChars == <<"0", "1", "2", "3", "4", "5", "6", "7", "8", "9">>

IsDigit(c) == \E d \in 1..10 : DigitChars[d] = c

DigitVal(c) == (CHOOSE d \in 1..10 : DigitChars[d] = c) - 1

Unsigned(text) ==
    IF text # <<>> /\ text[1] \in {"+", "-"} THEN Tail(text) ELSE text

\* int(text) succeeds on an optional sign followed by decimal digits.
int_ok(text) ==
    /\ Unsigned(text) # <<>>
    /\ \A i \in 1..Len(Unsigned(text)) : IsDigit(Unsigned(text)[i])

RECURSIVE DigitsValue(_)
DigitsValue(digits) ==
    IF digits = <<>> THEN 0
    ELSE 10 * DigitsValue(SubSeq(digits, 1, Len(digits) - 1))
         + DigitVal(digits[Len(digits)])

int(text) ==
    IF text[1] = "-" THEN 0 - DigitsValue(Unsigned(text))
    ELSE DigitsValue(Unsigned(text))

\* parse_args accepts the command line: every type conversion succeeds and
\* --encoding is one of the choices.
ArgsAccepted(av) ==
    /\ gcs_uri_ok(av.input_uri)
    /\ av.encoding # <<>> => av.encoding[1] \in EncodingChoices
    /\ av.sample_rate # <<>> => int_ok(av.sample_rate[1])

\* The namespace parse_args returns for an accepted command line.
Namespace(av) ==
    [input_uri |-> av.input_uri,
     encoding |-> IF av.encoding = <<>> THEN DefaultEncoding
                  ELSE av.encoding[1],
     sample_rate |-> IF av.sample_rate = <<>> THEN DefaultSampleRate
                     ELSE int(av.sample_rate[1])]

AsyncRecognizeRequest_fixed_rate(input_uri, encoding, sample_rate, language_code) ==
    [encoding |-> encoding,
     sample_rate |-> DefaultSampleRate,
     language_code |-> language_code,
     uri |-> input_uri]

\* The request message built at lines 60-73.
AsyncRecognizeRequest(input_uri, encoding, sample_rate, language_code) ==
    [encoding |-> encoding,
     sample_rate |-> sample_rate,
     language_code |-> language_code,
     uri |-> input_uri]

RECURSIVE AlternativeLines_reversed(_)
AlternativeLines_reversed(alternatives) ==
    IF alternatives = <<>> THEN <<>>
    ELSE AlternativeLines_reversed(Tail(alternatives))
         \o << [kind |-> "alternative",
                confidence |-> Head(alternatives).confidence,
                transcript |-> Head(alternatives).transcript] >>

RECURSIVE AlternativeLines(_)
AlternativeLines(alternatives) ==
    IF alternatives = <<>> THEN <<>>
    ELSE << [kind |-> "alternative",
             confidence |-> Head(alternatives).confidence,
             transcript |-> Head(alternatives).transcript] >>
         \o AlternativeLines(Tail(alternatives))

ResultHeader == [kind |-> "Result:", confidence |-> 0, transcript |-> ""]

\* The lines the loops at lines 100-104 print.
RECURSIVE ResultLines(_)
ResultLines(results) ==
    IF results = <<>> THEN <<>>
    ELSE <<ResultHeader>> \o AlternativeLines(Head(results))
         \o ResultLines(Tail(results))

\* ------------------------------------------------------------------------
\* Initial state
\* ------------------------------------------------------------------------
Init ==
    /\ pc = "parse_args"
    /\ argv \in ArgvSet
    /\ args = <<>>
    /\ requests = <<>>
    /\ operation = NoHandle
    /\ name = ""
    /\ response = <<>>
    /\ queried = <<>>
    /\ inflight = <<>>
    /\ trace = <<>>
    /\ stdout = <<>>

\* ------------------------------------------------------------------------
\* __main__ : argument parsing
\* ------------------------------------------------------------------------
ParseArgsOk ==
    /\ pc = "parse_args"
    /\ ArgsAccepted(argv)
    /\ args' = <<Namespace(argv)>>
    /\ pc' = "make_channel"
    /\ UNCHANGED <<argv, requests, operation, name, response, queried,
                   inflight, trace, stdout>>

\* parser.error: usage message on stderr, exit status 2.
ParseArgsError ==
    /\ pc = "parse_args"
    /\ ~ArgsAccepted(argv)
    /\ pc' = "usage_error"
    /\ UNCHANGED <<argv, args, requests, operation, name, response, queried,
                   inflight, trace, stdout>>

\* ------------------------------------------------------------------------
\* main
\* ------------------------------------------------------------------------
\* make_channel fetches an access token and opens the channel.
MakeChannel ==
    /\ pc = "make_channel"
    /\ trace' = Append(trace, "make_channel")
    /\ pc' = "submit"
    /\ UNCHANGED <<argv, args, requests, operation, name, response, queried,
                   inflight, stdout>>

\* The credential lookup or token fetch raises; nothing catches it.
MakeChannelFail ==
    /\ pc = "make_channel"
    /\ trace' = Append(trace, "make_channel")
    /\ pc' = "channel_error"
    /\ UNCHANGED <<argv, args, requests, operation, name, response, queried,
                   inflight, stdout>>

AsyncRecognizeCall ==
    /\ pc = "submit"
    /\ requests' = Append(requests,
           AsyncRecognizeRequest(args[1].input_uri, args[1].encoding,
                                 args[1].sample_rate, DefaultLanguageCode))
    /\ inflight' = Append(inflight, "AsyncRecognize")
    /\ trace' = Append(trace, "AsyncRecognize")
    /\ pc' = "submit_wait"
    /\ UNCHANGED <<argv, args, operation, name, response, queried, stdout>>

AsyncRecognizeReturn ==
    /\ pc = "submit_wait"
    /\ \E h \in Handles : operation' = h
    /\ inflight' = <<>>
    /\ pc' = "print_operation"
    /\ UNCHANGED <<argv, args, requests, name, response, queried, trace,
                   stdout>>

AsyncRecognizeFail_retry ==
    /\ pc = "submit_wait"
    /\ inflight' = <<>>
    /\ pc' = "submit"
    /\ UNCHANGED <<argv, args, requests, operation, name, response, queried,
                   trace, stdout>>

\* Deadline exceeded or transport error: the exception leaves main.
AsyncRecognizeFail ==
    /\ pc = "submit_wait"
    /\ inflight' = <<>>
    /\ pc' = "submit_error"
    /\ UNCHANGED <<argv, args, requests, operation, name, response, queried,
                   trace, stdout>>

PrintOperation_while_not_done ==
    /\ pc = "print_operation"
    /\ trace' = Append(trace, "print_operation")
    /\ name' = operation.name
    /\ pc' = IF operation.done THEN "unpack" ELSE "loop"
    /\ UNCHANGED <<argv, args, requests, operation, response, queried,
                   inflight, stdout>>

\* print(operation), then name = operation.name.
PrintOperation ==
    /\ pc = "print_operation"
    /\ trace' = Append(trace, "print_operation")
    /\ name' = operation.name
    /\ pc' = "loop"
    /\ UNCHANGED <<argv, args, requests, operation, response, queried,
                   inflight, stdout>>

PrintWaiting_nosleep ==
    /\ pc = "loop"
    /\ Len(queried) < MaxPolls
    /\ trace' = Append(trace, "print_waiting")
    /\ pc' = "get_operation"
    /\ UNCHANGED <<argv, args, requests, operation, name, response, queried,
                   inflight, stdout>>

PrintWaiting ==
    /\ pc = "loop"
    /\ Len(queried) < MaxPolls
    /\ trace' = Append(trace, "print_waiting")
    /\ pc' = "sleep"
    /\ UNCHANGED <<argv, args, requests, operation, name, response, queried,
                   inflight, stdout>>

Sleep ==
    /\ pc = "sleep"
    /\ trace' = Append(trace, "sleep")
    /\ pc' = "get_operation"
    /\ UNCHANGED <<argv, args, requests, operation, name, response, queried,
                   inflight, stdout>>

GetOperationCall_current_name ==
    /\ pc = "get_operation"
    /\ queried' = Append(queried, operation.name)
    /\ inflight' = Append(inflight, "GetOperation")
    /\ trace' = Append(trace, "GetOperation")
    /\ pc' = "get_wait"
    /\ UNCHANGED <<argv, args, requests, operation, name, response, stdout>>

GetOperationCall_future ==
    /\ pc = "get_operation"
    /\ queried' = Append(queried, name)
    /\ inflight' = Append(inflight, "GetOperation")
    /\ trace' = Append(trace, "GetOperation")
    /\ pc' = "check_error"
    /\ UNCHANGED <<argv, args, requests, operation, name, response, stdout>>

GetOperationCall ==
    /\ pc = "get_operation"
    /\ queried' = Append(queried, name)
    /\ inflight' = Append(inflight, "GetOperation")
    /\ trace' = Append(trace, "GetOperation")
    /\ pc' = "get_wait"
    /\ UNCHANGED <<argv, args, requests, operation, name, response, stdout>>

GetOperationReturn ==
    /\ pc = "get_wait"
    /\ \E h \in Handles : operation' = h
    /\ inflight' = <<>>
    /\ pc' = "check_error"
    /\ UNCHANGED <<argv, args, requests, name, response, queried, trace,
                   stdout>>

GetOperationFail_retry ==
    /\ pc = "get_wait"
    /\ inflight' = <<>>
    /\ pc' = "get_operation"
    /\ UNCHANGED <<argv, args, requests, operation, name, response, queried,
                   trace, stdout>>

\* Deadline exceeded or transport error: the exception leaves main.
GetOperationFail ==
    /\ pc = "get_wait"
    /\ inflight' = <<>>
    /\ pc' = "poll_error"
    /\ UNCHANGED <<argv, args, requests, operation, name, response, queried,
                   trace, stdout>>

CheckError_always ==
    /\ pc = "check_error"
    /\ trace' = Append(trace, "print_error")
    /\ pc' = "check_done"
    /\ UNCHANGED <<argv, args, requests, operation, name, response, queried,
                   inflight, stdout>>

CheckError ==
    /\ pc = "check_error"
    /\ trace' = IF operation.error # "" THEN Append(trace, "print_error")
                ELSE trace
    /\ pc' = "check_done"
    /\ UNCHANGED <<argv, args, requests, operation, name, response, queried,
                   inflight, stdout>>

CheckDone_max_tries ==
    /\ pc = "check_done"
    /\ pc' = IF operation.done \/ Len(queried) >= 1 THEN "unpack" ELSE "loop"
    /\ UNCHANGED <<argv, args, requests, operation, name, response, queried,
                   inflight, trace, stdout>>

CheckDone_break_on_payload ==
    /\ pc = "check_done"
    /\ pc' = IF operation.done \/ operation.response.kind = "ok" THEN "unpack"
             ELSE "loop"
    /\ UNCHANGED <<argv, args, requests, operation, name, response, queried,
                   inflight, trace, stdout>>

CheckDone_elif ==
    /\ pc = "check_done"
    /\ pc' = IF operation.done /\ operation.error = "" THEN "unpack"
             ELSE "loop"
    /\ UNCHANGED <<argv, args, requests, operation, name, response, queried,
                   inflight, trace, stdout>>

CheckDone_break_on_error ==
    /\ pc = "check_done"
    /\ pc' = IF operation.done \/ operation.error # "" THEN "unpack"
             ELSE "loop"
    /\ UNCHANGED <<argv, args, requests, operation, name, response, queried,
                   inflight, trace, stdout>>

CheckDone ==
    /\ pc = "check_done"
    /\ pc' = IF operation.done THEN "unpack" ELSE "loop"
    /\ UNCHANGED <<argv, args, requests, operation, name, response, queried,
                   inflight, trace, stdout>>

\* operation.response.Unpack(response): the result of Unpack is ignored, so
\* a payload that is absent leaves the fresh response message empty.
Unpack ==
    /\ pc = "unpack"
    /\ operation.response.kind # "malformed"
    /\ response' = operation.response.results
    /\ pc' = "print_results"
    /\ UNCHANGED <<argv, args, requests, operation, name, queried, inflight,
                   trace, stdout>>

\* A payload of the right type that does not parse raises in Unpack.
UnpackRaise ==
    /\ pc = "unpack"
    /\ operation.response.kind = "malformed"
    /\ pc' = "decode_crash"
    /\ UNCHANGED <<argv, args, requests, operation, name, response, queried,
                   inflight, trace, stdout>>

PrintResults ==
    /\ pc = "print_results"
    /\ stdout' = stdout \o ResultLines(response)
    /\ trace' = Append(trace, "print_results")
    /\ pc' = "exit0"
    /\ UNCHANGED <<argv, args, requests, operation, name, response, queried,
                   inflight>>

Next ==
    \/ ParseArgsOk
    \/ ParseArgsError
    \/ MakeChannel
    \/ MakeChannelFail
    \/ AsyncRecognizeCall
    \/ AsyncRecognizeReturn
    \/ AsyncRecognizeFail
    \/ PrintOperation
    \/ PrintWaiting
    \/ Sleep
    \/ GetOperationCall
    \/ GetOperationReturn
    \/ GetOperationFail
    \/ CheckError
    \/ CheckDone
    \/ Unpack
    \/ UnpackRaise
    \/ PrintResults

Spec == Init /\ [][Next]_vars

\* The program is one blocking thread: whenever a statement of its own is
\* next, it runs it.  Replies of the service are not forced.
ProgramStep ==
    \/ PrintOperation
    \/ PrintWaiting
    \/ Sleep
    \/ GetOperationCall
    \/ CheckError
    \/ CheckDone
    \/ Unpack
    \/ UnpackRaise
    \/ PrintResults

LiveSpec == Spec /\ WF_vars(ProgramStep)

\* ------------------------------------------------------------------------
\* Vocabulary of the properties
\* ------------------------------------------------------------------------
Terminal == {"exit0", "usage_error", "channel_error", "submit_error",
             "poll_error", "decode_crash"}

\* Positions of the poll loop (lines 83-95): the PENDING state.
InLoop == pc \in {"loop", "sleep", "get_operation", "get_wait",
                  "check_error", "check_done"}

\* The local `operation` holds a handle received from the service.
HasHandle == pc \in {"print_operation", "loop", "sleep", "get_operation",
                     "check_error", "check_done", "unpack", "print_results",
                     "exit0", "decode_crash"}

\* The handle held came from a GetOperation reply.
PolledHandle == /\ pc \in {"loop", "sleep", "get_operation", "check_error",
                           "check_done", "unpack", "print_results", "exit0",
                           "decode_crash"}
                /\ queried # <<>>

Count(seq, x) == Cardinality({i \in 1..Len(seq) : seq[i] = x})

NetworkEvents == {"make_channel", "AsyncRecognize", "GetOperation"}

NoNetworkActivity ==
    /\ \A i \in 1..Len(trace) : trace[i] \notin NetworkEvents
    /\ requests = <<>>
    /\ queried = <<>>
    /\ inflight = <<>>

TypeOK ==
    /\ pc \in Terminal \cup {"parse_args", "make_channel", "submit",
                             "submit_wait", "print_operation", "loop",
                             "sleep", "get_operation", "get_wait",
                             "check_error", "check_done", "unpack",
                             "print_results"}
    /\ argv \in ArgvSet
    /\ Len(requests) <= 1
    /\ operation \in Handles \cup {NoHandle}
    /\ name \in Names \cup {""}
    /\ Len(queried) <= MaxPolls
    /\ Len(inflight) <= 1

\* ------------------------------------------------------------------------
\* Properties
\* ------------------------------------------------------------------------

\* C1: once a GetOperation reply with done=true is held, with or without an
\* error message, the loop is left from that iteration's done test and no
\* further GetOperation query is issued.
C1_PollerIdempotence ==
    [][ (PolledHandle /\ operation.done) =>
            /\ queried' = queried
            /\ pc' \notin {"loop", "sleep", "get_operation", "get_wait"}
            /\ pc = "check_done" => pc' = "unpack" ]_vars

C1_Witness ==
    /\ pc = "exit0"
    /\ operation.done
    /\ operation.error # ""
    /\ Len(queried) = 1

\* C2: whenever the handle the program holds, the submission reply included,
\* has done=true, no GetOperation query is issued afterwards.
C2_DoneIsTerminal ==
    [][ (HasHandle /\ operation.done) => queried' = queried ]_vars

\* C3: a uri without the gs:// prefix or an --encoding outside the choices
\* ends in the usage error with no channel setup, no submission and no
\* GetOperation query.
C3_ValidationPrecedesIO ==
    ( \/ ~startswith(argv.input_uri, <<"g", "s", ":", "/", "/">>)
      \/ /\ argv.encoding # <<>>
         /\ argv.encoding[1] \notin {"LINEAR16", "FLAC", "MULAW", "AMR",
                                     "AMR_WB"} )
    => /\ NoNetworkActivity
       /\ pc \in {"parse_args", "usage_error"}
       /\ stdout = <<>>

C3_Witness ==
    /\ pc = "usage_error"
    /\ argv.input_uri = <<"g", "s", ":", "/", "b">>
    /\ argv.encoding = <<"FLAC">>

\* C4: a reply with an error message and done=false prints the error and
\* polling goes on to the next sleep and query; the loop is left only on a
\* reply with done=true or on a transport failure of the query.
C4_StopOnlyOnDone ==
    [][ /\ (pc = "check_error" /\ operation.error # "") =>
               (trace' = Append(trace, "print_error") /\ pc' = "check_done")
        /\ (pc = "check_done" /\ ~operation.done) => pc' = "loop"
        /\ pc = "loop" => pc' = "sleep"
        /\ pc = "sleep" => pc' = "get_operation"
        /\ pc = "get_operation" => queried' = Append(queried, name)
        /\ (InLoop /\ ~InLoop') =>
               \/ pc = "check_done" /\ operation.done /\ pc' = "unpack"
               \/ pc = "get_wait" /\ pc' = "poll_error" ]_vars

C4_Witness ==
    /\ pc = "get_wait"
    /\ Len(queried) = 2
    /\ operation.error # ""
    /\ ~operation.done
    /\ Count(trace, "print_error") >= 1

\* C5: every GetOperation query, the first included, comes right after a
\* sleep of its own.
C5_SleepBeforeEveryQuery ==
    \A i \in 1..Len(trace) :
        trace[i] = "GetOperation" => (i > 1 /\ trace[i - 1] = "sleep")

C5_Witness ==
    /\ Len(queried) = 2
    /\ Count(trace, "sleep") = 2

\* C6 as stated: every finished run that passed argument validation issued
\* exactly one submission, and a failed submission is followed by no query.
C6_ExactlyOneSubmission ==
    /\ Len(requests) <= 1
    /\ pc \in Terminal \ {"usage_error"} => Len(requests) = 1
    /\ pc = "submit_error" => queried = <<>>

\* C6 amended: never more than one submission; exactly one once make_channel
\* has returned and the call is made; a failed submission is not retried,
\* ends the program and is followed by no GetOperation query.
C6_OneSubmissionOnceChannelIsUp ==
    /\ [](Len(requests) <= 1)
    /\ [](pc \in Terminal \ {"usage_error", "channel_error"}
             => Len(requests) = 1)
    /\ [](pc \in {"parse_args", "usage_error", "make_channel",
                  "channel_error", "submit"} => requests = <<>>)
    /\ [](pc = "submit_error" => (queried = <<>> /\ stdout = <<>>))
    /\ [][pc = "submit_wait" => pc' \in {"print_operation", "submit_error"}]_vars
    /\ [][pc = "submit_error" => pc' = "submit_error"]_vars

C6_Witness ==
    /\ pc = "submit_error"
    /\ Len(requests) = 1

\* C7: a transport failure of a GetOperation query ends the program there:
\* the query is not retried, no further query is issued and no result line
\* is printed.
C7_PollFailureIsFatal ==
    /\ [][pc = "get_wait" => pc' \in {"check_error", "poll_error"}]_vars
    /\ [](pc = "poll_error" =>
             /\ stdout = <<>>
             /\ Count(trace, "print_results") = 0
             /\ inflight = <<>>)
    /\ [][pc = "poll_error" =>
             (pc' = "poll_error" /\ queried' = queried /\ stdout' = stdout
              /\ trace' = trace)]_vars

C7_Witness ==
    /\ pc = "poll_error"
    /\ Len(queried) = 2

\* C8: a run whose last reply had an error message, done=true and a payload
\* that is absent or does not parse neither crashes in decoding nor ends
\* successfully without any output: it reports a decode error.
C8_DecodeErrorReported ==
    ( /\ pc \in Terminal
      /\ PolledHandle
      /\ operation.done
      /\ operation.error # ""
      /\ operation.response.kind # "ok" )
    => /\ pc # "decode_crash"
       /\ ~(pc = "exit0" /\ stdout = <<>>)

\* C9: every request submitted carries a positive sample rate.
C9_PositiveSampleRate ==
    \A i \in 1..Len(requests) : requests[i].sample_rate > 0

ExpectedSampleRate ==
    CASE argv.sample_rate = <<>> -> 16000
      [] argv.sample_rate = << <<"1", "6", "0", "0", "0">> >> -> 16000
      [] argv.sample_rate = << <<"4", "4", "1", "0", "0">> >> -> 44100
      [] argv.sample_rate = << <<"0">> >> -> 0
      [] argv.sample_rate = << <<"-", "5">> >> -> 0 - 5

\* C10: the request sent carries the uri, the encoding and the sample rate
\* of the command line, LINEAR16 and 16000 standing in for omitted options.
C10_RequestEchoesInputs ==
    \A i \in 1..Len(requests) :
        /\ requests[i].uri = argv.input_uri
        /\ requests[i].encoding =
               (IF argv.encoding = <<>> THEN "LINEAR16" ELSE argv.encoding[1])
        /\ requests[i].encoding \in {"LINEAR16", "FLAC", "MULAW", "AMR",
                                     "AMR_WB"}
        /\ requests[i].sample_rate = ExpectedSampleRate

C10_Witness ==
    /\ Len(requests) = 1
    /\ argv.encoding = <<"AMR_WB">>
    /\ argv.sample_rate = << <<"4", "4", "1", "0", "0">> >>
    /\ requests[1].sample_rate = 44100
    /\ requests[1].encoding = "AMR_WB"

\* C11: the operation handle is printed once, after the submission reply and
\* before any poll; each poll iteration prints one waiting line ahead of its
\* query, so waiting lines and queries are equal in number; an error line is
\* printed in an iteration exactly when its reply has an error message; the
\* result lines come after the last poll.
C11_OutputSequence ==
    /\ [](/\ Count(trace, "print_operation") <= 1
          /\ \A i \in 1..Len(trace) :
                 trace[i] = "print_operation" =>
                     /\ \E j \in 1..(i - 1) : trace[j] = "AsyncRecognize"
                     /\ \A j \in 1..(i - 1) :
                            trace[j] \notin {"print_waiting", "sleep",
                                             "GetOperation"}
          /\ \A i \in 1..Len(trace) :
                 trace[i] \in {"print_waiting", "GetOperation"} =>
                     \E j \in 1..(i - 1) : trace[j] = "print_operation"
          /\ Count(trace, "GetOperation") = Len(queried)
          /\ Count(trace, "print_waiting") =
                 Len(queried) + (IF pc \in {"sleep", "get_operation"}
                                 THEN 1 ELSE 0)
          /\ \A i \in 1..Len(trace) :
                 trace[i] = "GetOperation" =>
                     (i > 2 /\ trace[i - 2] = "print_waiting")
          /\ \A i \in 1..Len(trace) :
                 trace[i] = "print_results" => (i = Len(trace) /\ pc = "exit0")
          /\ stdout # <<>> => (pc = "exit0"
                               /\ trace[Len(trace)] = "print_results"))
    /\ [][trace' = Append(trace, "print_operation") =>
              (pc = "print_operation" /\ inflight = <<>>)]_vars
    /\ [][pc = "check_error" =>
              /\ operation.error # "" => trace' = Append(trace, "print_error")
              /\ operation.error = "" => trace' = trace]_vars
    /\ [][pc # "check_error" =>
              Count(trace', "print_error") = Count(trace, "print_error")]_vars

C11_Witness ==
    /\ pc = "exit0"
    /\ Len(queried) = 2
    /\ Count(trace, "print_waiting") = 2
    /\ Count(trace, "print_error") = 1
    /\ stdout # <<>>

\* C12: the lines printed for a decoded payload are one header per result
\* and one line per alternative, in the order of the payload, not sorted by
\* confidence, none left out and none repeated.
C12_OrderPreserved ==
    pc = "exit0" =>
        /\ operation.response =
               [kind |-> "ok",
                results |-> << << [confidence |-> 50, transcript |-> "a"],
                                  [confidence |-> 90, transcript |-> "b"] >>,
                               << [confidence |-> 70, transcript |-> "c"] >> >>]
           => stdout =
               << [kind |-> "Result:", confidence |-> 0, transcript |-> ""],
                  [kind |-> "alternative", confidence |-> 50,
                   transcript |-> "a"],
                  [kind |-> "alternative", confidence |-> 90,
                   transcript |-> "b"],
                  [kind |-> "Result:", confidence |-> 0, transcript |-> ""],
                  [kind |-> "alternative", confidence |-> 70,
                   transcript |-> "c"] >>
        /\ operation.response =
               [kind |-> "ok",
                results |-> << << [confidence |-> 98,
                                   transcript |-> "hello world"] >> >>]
           => stdout =
               << [kind |-> "Result:", confidence |-> 0, transcript |-> ""],
                  [kind |-> "alternative", confidence |-> 98,
                   transcript |-> "hello world"] >>

C12_Witness ==
    /\ pc = "exit0"
    /\ Len(stdout) = 5
    /\ stdout[2].confidence < stdout[3].confidence

\* C13: the loop has no iteration limit of its own: whatever the number of
\* queries already made, a reply with done=false sends the program back to
\* another iteration, and the statements after the loop are reached only
\* from a reply with done=true; against replies that are never done and
\* never fail the program does not terminate.
C13_NoIterationBound ==
    /\ pc \in {"unpack", "print_results", "exit0", "decode_crash"}
           => (operation.done /\ queried # <<>>)
    /\ (pc \in Terminal /\ queried # <<>>)
           => (operation.done \/ pc = "poll_error")
    /\ (pc = "check_done" /\ ~operation.done) => ENABLED CheckDone
    /\ (pc = "loop" /\ Len(queried) < MaxPolls) => ENABLED PrintWaiting
    /\ pc = "sleep" => ENABLED Sleep
    /\ pc = "get_operation" => ENABLED GetOperationCall

C13_Witness ==
    /\ pc = "loop"
    /\ Len(queried) = MaxPolls
    /\ ~operation.done

\* C14: at most one RPC is outstanding at any time; the submission reply is
\* in before the first GetOperation, and each GetOperation has replied or
\* failed before the next sleep or query starts.
C14_OneRpcAtATime ==
    /\ Len(inflight) <= 1
    /\ inflight # <<>> => pc \in {"submit_wait", "get_wait"}
    /\ pc = "submit_wait" => (inflight = <<"AsyncRecognize">> /\ queried = <<>>)
    /\ pc = "get_wait" => inflight = <<"GetOperation">>
    /\ pc \in {"loop", "sleep", "get_operation"} => inflight = <<>>

C14_Witness ==
    /\ inflight = <<"GetOperation">>
    /\ Len(queried) = 2

\* C15: every GetOperation query carries the name of the submission reply;
\* the name is captured once before the loop and a different name in a
\* later reply does not replace it.
C15_NameCapturedOnce ==
    /\ [](\A i \in 1..Len(queried) : queried[i] = name)
    /\ [](\A i \in 1..Len(queried) : queried[i] = queried[1])
    /\ [][pc = "print_operation" => name' = operation.name]_vars
    /\ [][pc # "print_operation" => name' = name]_vars

C15_Witness ==
    /\ pc = "get_wait"
    /\ Len(queried) = 2
    /\ operation.name # name
    /\ queried[2] = name

\* C16: once a poll replies done=true the program leaves the loop and
\* terminates, and the number of queries it issued is the index of that
\* first done reply, which is at least 1: every earlier reply had
\* done=false and no query follows the done reply.
C16_TerminatesAtFirstDone ==
    /\ [](pc \in {"unpack", "print_results", "exit0", "decode_crash"}
              => (operation.done /\ Len(queried) >= 1))
    /\ []((pc \in {"loop", "sleep", "get_operation"} /\ queried # <<>>)
              => ~operation.done)
    /\ []((pc = "get_wait" /\ Len(queried) >= 2) => ~operation.done)
    /\ [][(pc \in {"check_error", "check_done", "unpack", "print_results",
                   "exit0", "decode_crash"} /\ operation.done)
              => queried' = queried]_vars
    /\ ((pc = "check_error" /\ operation.done)
            ~> pc \in {"exit0", "decode_crash"})

C16_Witness ==
    /\ pc = "exit0"
    /\ Len(queried) = 2
    /\ operation.done
    /\ operation.response.kind = "ok"

\* C17: what is decoded and printed is the payload of the handle of the last
\* GetOperation reply, the one with done=true; nothing is decoded or printed
\* as a result before the loop is left.
C17_DecodesLastPollOnly ==
    /\ [](pc \in {"print_results", "exit0"} =>
              /\ queried # <<>>
              /\ operation.done
              /\ response = operation.response.results)
    /\ []((InLoop \/ pc \in {"parse_args", "make_channel", "submit",
                             "submit_wait", "print_operation", "unpack"})
              => (response = <<>> /\ stdout = <<>>
                  /\ Count(trace, "print_results") = 0))
    /\ [][operation' # operation =>
              (pc \in {"submit_wait", "get_wait"} /\ inflight # <<>>)]_vars
    /\ [][pc = "unpack" => (operation.done /\ queried # <<>>)]_vars

C17_Witness ==
    /\ pc = "exit0"
    /\ Len(queried) = 2
    /\ response = operation.response.results
    /\ stdout # <<>>

====
